---- MODULE Spec2Model ----
(***************************************************************************)
(* gameTaskEmulator: one run of the scheduler (cmd/gameTaskEmulator) as a  *)
(* state machine.  A run parses its flags, dials the Cloud Tasks service,  *)
(* obtains the game list (test game, or schedule fetch plus filters),      *)
(* creates the queue and one task per game, and posts one Discord summary. *)
(*                                                                         *)
(* Go strings that the program inspects character by character (the -teams *)
(* value) are sequences of one-character strings; Str joins them.  A       *)
(* timestamp string is a record [ok, wall, off]: ok says whether the text  *)
(* is RFC 3339, wall is the wall-clock reading in seconds and off the zone *)
(* offset in seconds, so the instant it denotes is wall - off.             *)
(***************************************************************************)
EXTENDS Integers, Sequences, FiniteSets, TLC

VARIABLES
    pc,         \* position of main: start, parsed, connected, loaded, loop, processed, done, fatal
    args,       \* the command line and environment of the run
    config,     \* *Config built by parseFlags
    clock,      \* time.Now(), in seconds
    fetched,    \* games returned by fetchGamesForDate
    games,      \* main's games slice (the filtered list)
    idx,        \* position of the range loop of processGames (1-based)
    queueResults, \* what each createQueue call returned (TRUE for nil), in order
    queues,     \* transport state: queue paths that exist
    calls,      \* external calls made so far, in order
    attempted,  \* games handed to createCloudTask, in order
    logged,     \* log lines that matter (warnings, failures, fatal), in order
    fnArgs,     \* arguments of a function exercised on its own (<<>> in a run of main)
    fnResult    \* what that function returned (<<>> before the call)

vars == <<pc, args, config, clock, fetched, games, idx, queueResults, queues, calls, attempted, logged,
          fnArgs, fnResult>>

----------------------------------------------------------------------------
(* Bounds *)

MaxGames == 2       \* longest schedule the source returns
Tick == 200         \* seconds that may pass before a reading of the clock

----------------------------------------------------------------------------
(* Strings *)

RECURSIVE Str(_)
Str(cs) == IF cs = <<>> THEN "" ELSE Head(cs) \o Str(Tail(cs))

LowerLetters == <<"a","b","c","d","e","f","g","h","i","j","k","l","m",
                  "n","o","p","q","r","s","t","u","v","w","x","y","z">>
UpperLetters == <<"A","B","C","D","E","F","G","H","I","J","K","L","M",
                  "N","O","P","Q","R","S","T","U","V","W","X","Y","Z">>

ToUpperChar(c) ==
    IF \E i \in 1..Len(LowerLetters) : LowerLetters[i] = c
    THEN UpperLetters[CHOOSE i \in 1..Len(LowerLetters) : LowerLetters[i] = c]
    ELSE c

ToUpper(cs) == [i \in 1..Len(cs) |-> ToUpperChar(cs[i])]

IsSpace(c) == c \in {" ", "\t", "\n", "\r"}

RECURSIVE TrimLeft(_)
TrimLeft(cs) == IF cs # <<>> /\ IsSpace(Head(cs)) THEN TrimLeft(Tail(cs)) ELSE cs

RECURSIVE TrimRight(_)
TrimRight(cs) ==
    IF cs # <<>> /\ IsSpace(cs[Len(cs)]) THEN TrimRight(SubSeq(cs, 1, Len(cs) - 1)) ELSE cs

TrimSpace(cs) == TrimRight(TrimLeft(cs))

\* strings.Split(s, sep) for a one-character separator: always at least one piece
RECURSIVE SplitFrom(_, _, _)
SplitFrom(cs, sep, cur) ==
    IF cs = <<>> THEN <<cur>>
    ELSE IF Head(cs) = sep THEN <<cur>> \o SplitFrom(Tail(cs), sep, <<>>)
    ELSE SplitFrom(Tail(cs), sep, Append(cur, Head(cs)))

Split(cs, sep) == SplitFrom(cs, sep, <<>>)

Digits == <<"0","1","2","3","4","5","6","7","8","9">>
IsDigit(c) == \E i \in 1..10 : Digits[i] = c
DigitVal(c) == (CHOOSE i \in 1..10 : Digits[i] = c) - 1

RECURSIVE DigitsVal(_, _)
DigitsVal(cs, acc) ==
    IF cs = <<>> THEN acc ELSE DigitsVal(Tail(cs), acc * 10 + DigitVal(Head(cs)))

\* strconv.Atoi: optional sign, then one or more decimal digits, nothing else
Atoi(cs) ==
    LET signed == cs # <<>> /\ Head(cs) \in {"+", "-"}
        body   == IF signed THEN Tail(cs) ELSE cs
        good   == body # <<>> /\ \A i \in 1..Len(body) : IsDigit(body[i])
    IN  IF ~good THEN [ok |-> FALSE, val |-> 0]
        ELSE [ok |-> TRUE,
              val |-> IF signed /\ Head(cs) = "-" THEN 0 - DigitsVal(body, 0)
                      ELSE DigitsVal(body, 0)]

----------------------------------------------------------------------------
(* config.go *)

DefaultTeamID == 25

cityCodeToTeamID ==
    [ANA |-> 24, ARI |-> 53, BOS |-> 1,  BUF |-> 7,  CAR |-> 12, CBJ |-> 29,
     CGY |-> 20, CHI |-> 16, COL |-> 21, DAL |-> 25, DET |-> 17, EDM |-> 22,
     FLA |-> 13, LAK |-> 26, MIN |-> 30, MTL |-> 8,  NJD |-> 6,  NSH |-> 18,
     NYI |-> 2,  NYR |-> 3,  OTT |-> 9,  PHI |-> 4,  PIT |-> 5,  SEA |-> 55,
     SJS |-> 28, STL |-> 19, TBL |-> 14, TOR |-> 10, VAN |-> 23, VGK |-> 54,
     WPG |-> 52, WSH |-> 15]

\* parseTeamIdentifier: [ok, val]; ok = FALSE is the "invalid team identifier" error
\* a resolver that looks the token up as it was typed, without upper-casing it
parseTeamIdentifierCaseSensitive(identifier) ==
    LET id == TrimSpace(identifier)
    IN  IF Str(id) \in DOMAIN cityCodeToTeamID
        THEN [ok |-> TRUE, val |-> cityCodeToTeamID[Str(id)]]
        ELSE Atoi(id)

\* a resolver that answers the default team for a token it does not know
parseTeamIdentifierDefaulting(identifier) ==
    LET id == TrimSpace(ToUpper(identifier))
    IN  IF Str(id) \in DOMAIN cityCodeToTeamID
        THEN [ok |-> TRUE, val |-> cityCodeToTeamID[Str(id)]]
        ELSE IF Atoi(id).ok THEN Atoi(id) ELSE [ok |-> TRUE, val |-> DefaultTeamID]

parseTeamIdentifier(identifier) ==
    LET id == TrimSpace(ToUpper(identifier))
    IN  IF Str(id) \in DOMAIN cityCodeToTeamID
        THEN [ok |-> TRUE, val |-> cityCodeToTeamID[Str(id)]]
        ELSE Atoi(id)

----------------------------------------------------------------------------
(* Time *)

SecondsPerDay == 86400
LocalOffset == 0            \* zone offset of time.Local, in seconds
LeadSeconds == 300          \* 5 * time.Minute
DurationSeconds == 14400    \* 4 * time.Hour

\* t.Format("2006-01-02") of a local time: the text of the calendar day
FormatDate(t) == <<(t + LocalOffset) \div SecondsPerDay>>

\* t.Format(time.RFC3339) of the instant t carried in a zone of offset off
FormatRFC3339(t, off) == [ok |-> TRUE, wall |-> t + off, off |-> off]

\* time.Parse(time.RFC3339, s): the instant and the zone of the text, or an error
ParseRFC3339(s) ==
    IF s.ok THEN [ok |-> TRUE, t |-> s.wall - s.off, off |-> s.off]
    ELSE [ok |-> FALSE, t |-> 0, off |-> 0]

----------------------------------------------------------------------------
(* The command line *)

Now0 == 100 * SecondsPerDay + 72000     \* the instant the run starts

HostURLValue == "https://example.com/api"
WebhookFlagValue == "https://discord.test/flag"
WebhookEnvValue == "https://discord.test/env"

\* values of -teams
TeamsPool ==
    { <<>>,
      <<"D","A","L">>,
      <<"5","5">>,
      <<"c","h","i",","," ","1"," ">>,
      <<"B","O","S",",","z","z","z">>,
      <<"2","5",",">> }

\* a command line that leaves the date, the teams and the webhook alone
PlainArgs(a) ==
    /\ ~a.today /\ ~a.shootout /\ a.date = <<>> /\ a.teams = <<>>
    /\ a.webhook = "" /\ a.envWebhook = ""

\* -project, -location and -queue at their defaults
DefaultPlace(a) ==
    a.project = "localproject" /\ a.location = "us-south1" /\ a.queue = "gameschedule"

\* the command lines tried: -shootout only matters with -test, the webhook flag is
\* tried against a set environment variable only, and another project, location or
\* queue is tried on plain command lines only
ArgSpace ==
    { a \in [ local      : BOOLEAN,
              host       : {"", HostURLValue},
              test       : BOOLEAN,
              all        : BOOLEAN,
              today      : BOOLEAN,
              prod       : BOOLEAN,
              shootout   : BOOLEAN,
              date       : {<<>>, <<99>>},
              teams      : TeamsPool,
              webhook    : {"", WebhookFlagValue},
              envWebhook : {"", WebhookEnvValue},
              project    : {"localproject", "crash-the-crease"},
              location   : {"us-south1", "us-central1"},
              queue      : {"gameschedule", "game-updates"} ] :
        /\ a.shootout => a.test
        /\ a.webhook # "" => a.envWebhook # ""
        /\ ~DefaultPlace(a) => PlainArgs(a) }

\* &Config{} with the flag defaults
NoConfig ==
    [ Date |-> <<>>, Teams |-> <<>>, TestMode |-> FALSE, AllTeams |-> FALSE,
      Today |-> FALSE, Production |-> FALSE, Shootout |-> FALSE,
      ProjectID |-> "localproject", Location |-> "us-south1",
      QueueName |-> "gameschedule", LocalMode |-> FALSE, HostURL |-> "",
      DiscordWebhookURL |-> "" ]

\* the loop over teamStrs of parseFlags: stops at the first invalid token
RECURSIVE ParseTeams(_)
ParseTeams(teamStrs) ==
    IF teamStrs = <<>> THEN [ok |-> TRUE, val |-> <<>>]
    ELSE LET r == parseTeamIdentifier(Head(teamStrs))
         IN  IF ~r.ok THEN [ok |-> FALSE, val |-> <<>>]
             ELSE LET rest == ParseTeams(Tail(teamStrs))
                  IN  IF ~rest.ok THEN rest
                      ELSE [ok |-> TRUE, val |-> <<r.val>> \o rest.val]

\* config.go:130  neither -local nor -host
DestinationMissing(a) == ~a.local /\ a.host = ""

DestinationConflictIgnored(a) == FALSE

\* config.go:135  both -local and -host
DestinationConflict(a) == a.local /\ a.host # ""

\* a parseFlags that lets an explicit -date win over -today
DateForExplicitFirst(a, now) ==
    IF a.date # <<>> THEN a.date ELSE FormatDate(now)

\* config.go:139-144  -today overrides -date; no date at all means today
DateFor(a, now) ==
    IF a.today THEN FormatDate(now)
    ELSE IF a.date = <<>> THEN FormatDate(now) ELSE a.date

\* a parseFlags that goes on after a token it could not resolve
TeamsInvalidIgnored(a, parsed) == FALSE

\* config.go:152-155  -teams is read when -all is absent; a token that does not resolve is fatal
TeamsInvalid(a, parsed) == ~a.all /\ a.teams # <<>> /\ ~parsed.ok

\* parseFlags: the configuration, or the log.Fatalf that ends the run
parseFlags(a, now) ==
    LET webhook == IF a.webhook = "" THEN a.envWebhook ELSE a.webhook
        date    == DateFor(a, now)
        parsed  == ParseTeams(Split(a.teams, ","))
        teams   == IF a.all THEN <<>>
                   ELSE IF a.teams # <<>> THEN parsed.val
                   ELSE <<DefaultTeamID>>
    IN  IF DestinationMissing(a)
        THEN [fatal |-> TRUE, msg |-> "Error: Either -local or -host <url> must be provided",
              config |-> NoConfig]
        ELSE IF DestinationConflict(a)
        THEN [fatal |-> TRUE, msg |-> "Error: Cannot specify both -local and -host flags",
              config |-> NoConfig]
        ELSE IF TeamsInvalid(a, parsed)
        THEN [fatal |-> TRUE, msg |-> "Invalid team identifier", config |-> NoConfig]
        ELSE [fatal |-> FALSE, msg |-> "",
              config |-> [ Date |-> date, Teams |-> teams, TestMode |-> a.test,
                           AllTeams |-> a.all, Today |-> a.today,
                           Production |-> a.prod, Shootout |-> a.shootout,
                           ProjectID |-> a.project, Location |-> a.location,
                           QueueName |-> a.queue, LocalMode |-> a.local,
                           HostURL |-> a.host, DiscordWebhookURL |-> webhook ]]

----------------------------------------------------------------------------
(* Errors of the external calls, as the words of their text *)

NoError == <<>>
ErrDial == <<"context", "deadline", "exceeded">>
ErrFetch == <<"failed", "to", "fetch", "schedule">>
ErrStatus == <<"NHL", "API", "returned", "status">>
ErrDecode == <<"failed", "to", "decode", "response">>
ErrCreateTask == <<"rpc", "error:", "code", "=", "Unavailable">>
ErrSend == <<"failed", "to", "send", "Discord", "notification">>

----------------------------------------------------------------------------
(* The schedule source *)

TeamOf(id, abbrev) == [ID |-> id, Abbrev |-> abbrev]

BadTime == [ok |-> FALSE, wall |-> 0, off |-> 0]    \* a start time that is not RFC 3339

\* games the schedule source may return: one that starts a Tick after the run begins,
\* one whose start time is malformed, one that starts the instant the run begins
GamePool ==
    { [ID |-> 2025020001, GameDate |-> FormatDate(Now0),
       StartTime |-> FormatRFC3339(Now0 + Tick, 0),
       AwayTeam |-> TeamOf(25, "DAL"), HomeTeam |-> TeamOf(1, "BOS")],
      [ID |-> 2025020002, GameDate |-> FormatDate(Now0),
       StartTime |-> BadTime,
       AwayTeam |-> TeamOf(16, "CHI"), HomeTeam |-> TeamOf(25, "DAL")],
      [ID |-> 2025020003, GameDate |-> <<99>>,
       StartTime |-> FormatRFC3339(Now0, 0 - 18000),
       AwayTeam |-> TeamOf(55, "SEA"), HomeTeam |-> TeamOf(26, "LAK")] }

SeqsUpTo(S, n) == UNION { [1..k -> S] : k \in 0..n }

\* ScheduleResponse.GameWeek: the games of the answer in up to two week buckets
GameWeeks == { <<>> } \cup
    { <<SubSeq(l, 1, k), SubSeq(l, k + 1, Len(l))>> :
        <<l, k>> \in { <<l, k>> \in SeqsUpTo(GamePool, MaxGames) \X (0..MaxGames) : k <= Len(l) } }

\* what http.Get and the JSON decoder can produce for the schedule request
FetchResponses ==
    { [kind |-> "neterr", status |-> 0, decodes |-> FALSE, weeks |-> <<>>] } \cup
    { [kind |-> "http", status |-> st, decodes |-> FALSE, weeks |-> <<>>] : st \in {200, 404, 500} } \cup
    { [kind |-> "http", status |-> 200, decodes |-> TRUE, weeks |-> w] : w \in GameWeeks }

RECURSIVE Flatten(_)
Flatten(weeks) == IF weeks = <<>> THEN <<>> ELSE Head(weeks) \o Flatten(Tail(weeks))

\* fetchGamesForDate, given the answer to its request: [err, games]
fetchGamesForDate(resp) ==
    IF resp.kind = "neterr" THEN [err |-> ErrFetch, games |-> <<>>]
    ELSE IF resp.status # 200 THEN [err |-> ErrStatus, games |-> <<>>]
    ELSE IF ~resp.decodes THEN [err |-> ErrDecode, games |-> <<>>]
    ELSE [err |-> NoError, games |-> Flatten(resp.weeks)]

RECURSIVE SelectGames(_, _)
SelectGames(gs, teamMap) ==
    IF gs = <<>> THEN <<>>
    ELSE IF Head(gs).HomeTeam.ID \in teamMap \/ Head(gs).AwayTeam.ID \in teamMap
         THEN <<Head(gs)>> \o SelectGames(Tail(gs), teamMap)
         ELSE SelectGames(Tail(gs), teamMap)

\* a team filter that looks at the home team only
filterGamesForTeamsHomeOnly(gs, teams) ==
    IF Len(teams) = 0 THEN gs
    ELSE SelectSeq(gs, LAMBDA g : g.HomeTeam.ID \in { teams[i] : i \in 1..Len(teams) })

\* main.go:661-681  no team means every game; otherwise the games of the teams of the map
filterGamesForTeams(gs, teams) ==
    IF Len(teams) = 0 THEN gs
    ELSE SelectGames(gs, { teams[i] : i \in 1..Len(teams) })

\* a test that keeps a game whose start time does not parse
IsUpcomingLenient(st, now) == ~st.ok \/ st.t > now

\* a test that keeps the game that starts at this very instant
IsUpcomingOrNow(st, now) == st.ok /\ st.t >= now

\* main.go:689-697  the start time parsed (else: warning, continue) and startTime.After(now)
IsUpcoming(st, now) == st.ok /\ st.t > now

\* filterUpcomingGames with now the reading of the clock
RECURSIVE filterUpcomingGames(_, _)
filterUpcomingGames(gs, now) ==
    IF gs = <<>> THEN <<>>
    ELSE IF IsUpcoming(ParseRFC3339(Head(gs).StartTime), now)
         THEN <<Head(gs)>> \o filterUpcomingGames(Tail(gs), now)
         ELSE filterUpcomingGames(Tail(gs), now)

\* the warnings filterUpcomingGames logs: one per game whose start time does not parse
RECURSIVE UpcomingWarnings(_)
UpcomingWarnings(gs) ==
    IF gs = <<>> THEN <<>>
    ELSE IF ParseRFC3339(Head(gs).StartTime).ok THEN UpcomingWarnings(Tail(gs))
         ELSE <<"Warning: Could not parse start time">> \o UpcomingWarnings(Tail(gs))

createTestGame(shootout, now) ==
    [ID |-> IF shootout THEN 2024030412 ELSE 2024030411,
     GameDate |-> FormatDate(now),
     StartTime |-> FormatRFC3339(now, LocalOffset),
     AwayTeam |-> TeamOf(DefaultTeamID, "DAL"),
     HomeTeam |-> TeamOf(1, "BOS")]

----------------------------------------------------------------------------
(* The task queue transport *)

\* an external call and the error it returned (NoError when it succeeded)
Call(op, arg, err) == [op |-> op, arg |-> arg, err |-> err]

\* strings.Contains on texts written as sequences of words
Contains(text, phrase) ==
    \E i \in 0..(Len(text) - Len(phrase)) :
        \A j \in 1..Len(phrase) : text[i + j] = phrase[j]

ErrAlreadyExistsStatus ==
    <<"rpc", "error:", "code", "=", "AlreadyExists", "desc", "=", "Queue", "already", "exists">>
ErrAlreadyExistsText == <<"queue", "already", "exists">>
ErrAlreadyExistsCode == <<"rpc", "error:", "code", "=", "AlreadyExists">>
ErrUnavailable == <<"rpc", "error:", "code", "=", "Unavailable", "desc", "=", "connection", "refused">>
ErrNotFound == <<"rpc", "error:", "code", "=", "NotFound", "desc", "=", "location", "exists", "already?">>

\* answers of the transport to CreateQueue: it creates a missing queue, reports an
\* existing one, or fails for another reason
CreateQueueAnswers(path, existing) ==
    IF path \in existing
    THEN {ErrAlreadyExistsStatus, ErrAlreadyExistsText, ErrAlreadyExistsCode, ErrUnavailable}
    ELSE {NoError, ErrUnavailable, ErrNotFound}

QueuePath(c) ==
    "projects/" \o c.ProjectID \o "/locations/" \o c.Location \o "/queues/" \o c.QueueName

ParentPath(c) == "projects/" \o c.ProjectID \o "/locations/" \o c.Location

CreateQueueRequest(c) == [Parent |-> ParentPath(c), Name |-> QueuePath(c)]

\* createQueue as a transport that knows only the "already exists" wording
createQueueTextOnly(err) ==
    IF err # NoError THEN Contains(err, <<"already", "exists">>) ELSE TRUE

\* createQueue, given the transport's answer: TRUE when it returns nil
createQueue(err) ==
    IF err # NoError
    THEN IF Contains(err, <<"already", "exists">>) \/ Contains(err, <<"AlreadyExists">>)
         THEN TRUE
         ELSE FALSE
    ELSE TRUE

LocalTargetURL == "http://host.docker.internal:8080"

\* a target URL that test mode forces to the local endpoint
TargetURLByMode(c) == IF c.LocalMode \/ c.TestMode THEN LocalTargetURL ELSE c.HostURL

\* main.go:838-844  the endpoint every task of the run is sent to
TargetURL(c) == IF c.LocalMode THEN LocalTargetURL ELSE c.HostURL

TaskPayloadAlwaysNotify(c, game, st) ==
    [ game |-> [ id |-> ToString(game.ID), gameDate |-> game.GameDate,
                 startTimeUTC |-> game.StartTime,
                 homeTeam |-> game.HomeTeam, awayTeam |-> game.AwayTeam ],
      execution_end |-> FormatRFC3339(st.t + DurationSeconds, st.off),
      ShouldNotify |-> TRUE ]

\* TaskPayload of createCloudTask for a game whose start time parsed as st
TaskPayload(c, game, st) ==
    [ game |-> [ id |-> ToString(game.ID), gameDate |-> game.GameDate,
                 startTimeUTC |-> game.StartTime,
                 homeTeam |-> game.HomeTeam, awayTeam |-> game.AwayTeam ],
      execution_end |-> FormatRFC3339(st.t + DurationSeconds, st.off),
      ShouldNotify |-> ~c.TestMode ]

\* the schedule time with the lead added instead of subtracted
ScheduleTimeAfterStart(st) == st.t + LeadSeconds

\* main.go:847  scheduleTime := startTime.Add(-5 * time.Minute), as seconds
ScheduleTime(st) == st.t - LeadSeconds

\* the CreateTaskRequest of createCloudTask
CreateTaskRequest(c, game, st) ==
    [ Parent |-> QueuePath(c),
      HttpMethod |-> "POST",
      Url |-> TargetURL(c),
      Headers |-> [ContentType |-> "application/json"],
      Body |-> TaskPayload(c, game, st),
      ScheduleTime |-> ScheduleTime(st) ]

----------------------------------------------------------------------------
(* internal/notification *)

\* NewDiscordSender: a NoOpSender for an empty webhook URL
NewDiscordSender(webhookURL, userID) ==
    IF webhookURL = "" THEN [kind |-> "noop", webhookURL |-> "", userID |-> ""]
    ELSE [kind |-> "discord", webhookURL |-> webhookURL, userID |-> userID]

NoOpSenderIsEnabled == FALSE

IsEnabled(n) == IF n.kind = "discord" THEN n.webhookURL # "" ELSE NoOpSenderIsEnabled

\* the notification.GameInfo main builds for a game
GameInfoOf(game) ==
    [ ID |-> ToString(game.ID), GameDate |-> game.GameDate, StartTime |-> game.StartTime,
      HomeTeam |-> game.HomeTeam.Abbrev, AwayTeam |-> game.AwayTeam.Abbrev ]

\* a summary of the games whose start time parses only
GameInfosParsed(gs) ==
    LET ok == SelectSeq(gs, LAMBDA g : ParseRFC3339(g.StartTime).ok)
    IN  [i \in 1..Len(ok) |-> GameInfoOf(ok[i])]

\* a summary built back to front
GameInfosReversed(gs) == [i \in 1..Len(gs) |-> GameInfoOf(gs[Len(gs) + 1 - i])]

\* main.go:576-585  one GameInfo per game, in the order of games
GameInfos(gs) == [i \in 1..Len(gs) |-> GameInfoOf(gs[i])]

\* a block that names the home team first
GameBlockHomeFirst(info) ==
    <<"**", info.HomeTeam, " @ ", info.AwayTeam, "**\n",
      info.GameDate, " at ", info.StartTime, "\n\n">>

\* discord.go:233-234  Sprintf("**%s @ %s**\n%s at %s\n\n", away, home, date, start)
GameBlock(info) ==
    <<"**", info.AwayTeam, " @ ", info.HomeTeam, "**\n",
      info.GameDate, " at ", info.StartTime, "\n\n">>

\* the description of the non-empty branch, as the sequence of the pieces Sprintf joins
RECURSIVE Description(_)
Description(infos) ==
    IF infos = <<>> THEN <<>>
    ELSE GameBlock(Head(infos)) \o Description(Tail(infos))

ColorGray == 9807270
ColorGreen == 3066993

\* a summary that is green whatever it says
SummaryColorGreen(k) == ColorGreen

\* discord.go:226,251  gray for no game, green otherwise
SummaryColor(k) == IF k = 0 THEN ColorGray ELSE ColorGreen

\* a title that always says "games"
SummaryTitlePlural(k) ==
    IF k = 0 THEN "NHL Game Schedule"
    ELSE "NHL Game Schedule (" \o ToString(k) \o " games scheduled)"

\* discord.go:224,242-246  the title: no count for no game, "game" for one, "games" otherwise
SummaryTitle(k) ==
    IF k = 0 THEN "NHL Game Schedule"
    ELSE "NHL Game Schedule (" \o ToString(k) \o " game"
            \o (IF k # 1 THEN "s" ELSE "") \o " scheduled)"

\* a mention that does not look whether a user is configured
MentionAlways(userID) == <<"<@" \o userID \o ">">>

\* discord.go:238-240  the mention that ends the description when a user is configured
Mention(userID) == IF userID # "" THEN <<"<@" \o userID \o ">">> ELSE <<>>

\* the discordMessage SendScheduleSummary hands to sendPayload
ScheduleSummary(n, infos, now) ==
    LET embed ==
          IF Len(infos) = 0
          THEN [ Title |-> SummaryTitle(0),
                 Description |-> <<"No games were identified to schedule.">>,
                 Color |-> SummaryColor(0),
                 Timestamp |-> FormatRFC3339(now, 0) ]
          ELSE [ Title |-> SummaryTitle(Len(infos)),
                 Description |-> Description(infos) \o Mention(n.userID),
                 Color |-> SummaryColor(Len(infos)),
                 Timestamp |-> FormatRFC3339(now, 0) ]
    IN  [ Content |-> "", Embeds |-> <<embed>> ]

\* answers to the webhook request: no answer, or an HTTP status
WebhookAnswers == {0, 200, 204, 400, 429, 500}

\* sendPayload, given the answer: TRUE when it returns nil
sendPayload(answer) == answer # 0 /\ ~(answer # 200 /\ answer # 204)

\* discord.go:289  Errorf("Discord webhook returned status %d", resp.StatusCode)
ErrWebhookStatus(status) == <<"Discord", "webhook", "returned", "status", ToString(status)>>

\* a sendPayload that takes every answer below 300 for a success
sendPayloadErrorAny2xx(answer) ==
    IF answer = 0 THEN ErrSend
    ELSE IF answer >= 300 THEN ErrWebhookStatus(answer)
    ELSE NoError

\* discord.go:269-294  the error sendPayload returns, given the answer (0: no answer)
sendPayloadError(answer) ==
    IF answer = 0 THEN ErrSend
    ELSE IF answer # 200 /\ answer # 204 THEN ErrWebhookStatus(answer)
    ELSE NoError

----------------------------------------------------------------------------
(* processGames *)

NoGamesNever(gs) == FALSE

NoGamesInverted(gs) == Len(gs) # 0

\* main.go:881  the early return of processGames
NoGames(gs) == Len(gs) = 0

\* a processGames that gives up when the queue cannot be created
AfterQueueAbort(ok) == IF ok THEN "loop" ELSE "fatal"

\* main.go:887-889  a createQueue error is logged and the loop is entered all the same
AfterQueue(ok) == "loop"

\* a loop that stops at the first task that fails
\* a loop that never leaves the list
AfterTaskAgain(i, n, failed) == "loop"

AfterTaskAbort(i, n, failed) == IF failed \/ i + 1 > n THEN "processed" ELSE "loop"

\* main.go:893-900  the range loop: `continue` after a failure, the end after the last game
AfterTask(i, n, failed) == IF i + 1 > n THEN "processed" ELSE "loop"

----------------------------------------------------------------------------
(* main *)

Init ==
    /\ pc = "start"
    /\ args \in ArgSpace
    /\ config = NoConfig
    /\ clock = Now0
    /\ fetched = <<>>
    /\ games = <<>>
    /\ idx = 0
    /\ queueResults = <<>>
    /\ queues \in { {}, {QueuePath(NoConfig)} }
    /\ calls = <<>>
    /\ attempted = <<>>
    /\ logged = <<>>
    /\ fnArgs = <<>>
    /\ fnResult = <<>>

\* main.go:519  config := parseFlags()
ParseFlags ==
    /\ pc = "start"
    /\ LET r == parseFlags(args, clock)
       IN  IF r.fatal
           THEN /\ pc' = "fatal"
                /\ logged' = Append(logged, r.msg)
                /\ config' = config
           ELSE /\ pc' = "parsed"
                /\ logged' = logged
                /\ config' = r.config
    /\ UNCHANGED <<args, clock, fetched, games, idx, queueResults, queues, calls, attempted, fnArgs, fnResult>>

\* main.go:536  connectToTasksService: dials the emulator; production is not implemented
Connect ==
    /\ pc = "parsed"
    /\ IF config.Production
       THEN /\ pc' = "fatal"
            /\ calls' = calls
            /\ logged' = Append(logged, "Failed to connect to tasks service")
       ELSE \E err \in {NoError, ErrDial} :
            /\ calls' = Append(calls, Call("Dial", "emulator", err))
            /\ pc' = IF err = NoError THEN "connected" ELSE "fatal"
            /\ logged' = IF err = NoError THEN logged
                         ELSE Append(logged, "Failed to connect to tasks service")
    /\ UNCHANGED <<args, config, clock, fetched, games, idx, queueResults, queues, attempted, fnArgs, fnResult>>

\* a test mode that hands its game to the team filter
TestGameListFiltered(c, now) ==
    filterGamesForTeams(<<createTestGame(c.Shootout, now)>>, c.Teams)

\* main.go:549  games = []Game{createTestGame(config.Shootout)}
TestGameList(c, now) == <<createTestGame(c.Shootout, now)>>

\* main.go:544-550  test mode: one predefined game
TestGames ==
    /\ pc = "connected"
    /\ config.TestMode
    /\ \E d \in {0, Tick} :
        /\ clock' = clock + d
        /\ games' = TestGameList(config, clock + d)
    /\ pc' = "loaded"
    /\ UNCHANGED <<args, config, fetched, idx, queueResults, queues, calls, attempted, logged, fnArgs, fnResult>>

\* a main that goes on without games when the fetch failed
AfterFetchIgnore(failed) == "loaded"

\* main.go:553-556  log.Fatalf when fetchGamesForDate returns an error
AfterFetch(failed) == IF failed THEN "fatal" ELSE "loaded"

\* main.go:551-565  fetch the schedule, filter by team, then by start time under -today
FetchGames ==
    /\ pc = "connected"
    /\ ~config.TestMode
    /\ \E resp \in FetchResponses, d \in {0, Tick} :
        LET r  == fetchGamesForDate(resp)
            byTeam == filterGamesForTeams(r.games, config.Teams)
        IN  /\ calls' = Append(calls, Call("Fetch", config.Date, r.err))
            /\ IF r.err # NoError
               THEN /\ pc' = AfterFetch(TRUE)
                    /\ logged' = Append(logged, "Failed to fetch games")
                    /\ UNCHANGED <<fetched, games, clock>>
               ELSE /\ pc' = AfterFetch(FALSE)
                    /\ fetched' = r.games
                    /\ IF config.Today
                       THEN /\ clock' = clock + d
                            /\ games' = filterUpcomingGames(byTeam, clock + d)
                            /\ logged' = logged \o UpcomingWarnings(byTeam)
                       ELSE /\ d = 0
                            /\ clock' = clock
                            /\ games' = byTeam
                            /\ logged' = logged
    /\ UNCHANGED <<args, config, idx, queueResults, queues, attempted, fnArgs, fnResult>>

\* createQueue against the transport: the request, the answer, what it returns
CreateQueueCall(err) ==
    /\ calls' = Append(calls, Call("CreateQueue", CreateQueueRequest(config), err))
    /\ queues' = IF err = NoError THEN queues \cup {QueuePath(config)} ELSE queues
    /\ queueResults' = Append(queueResults, createQueue(err))

\* main.go:880-891  processGames up to its loop: nothing to do, or createQueue
EnsureQueue ==
    /\ pc = "loaded"
    /\ IF NoGames(games)
       THEN /\ pc' = "processed"
            /\ UNCHANGED <<idx, queueResults, queues, calls, logged>>
       ELSE \E err \in CreateQueueAnswers(QueuePath(config), queues) :
            /\ CreateQueueCall(err)
            /\ logged' = IF createQueue(err) THEN logged
                         ELSE Append(logged, "Warning: Failed to create queue")
            /\ idx' = 1
            /\ pc' = IF Len(games) = 0 THEN "processed" ELSE AfterQueue(createQueue(err))
    /\ UNCHANGED <<args, config, clock, fetched, games, attempted, fnArgs, fnResult>>

\* main.go:893-900  one iteration of the loop of processGames: createCloudTask
CreateCloudTask ==
    /\ pc = "loop"
    /\ idx <= Len(games)
    /\ LET game == games[idx]
           st   == ParseRFC3339(game.StartTime)
       IN  /\ attempted' = Append(attempted, game)
           /\ IF ~st.ok
              THEN /\ calls' = calls
                   /\ logged' = Append(logged, "Failed to create task")
                   /\ pc' = AfterTask(idx, Len(games), TRUE)
              ELSE \E err \in {NoError, ErrCreateTask} :
                   /\ calls' = Append(calls, Call("CreateTask", CreateTaskRequest(config, game, st), err))
                   /\ logged' = IF err = NoError THEN logged
                                ELSE Append(logged, "Failed to create task")
                   /\ pc' = AfterTask(idx, Len(games), err # NoError)
    /\ idx' = idx + 1
    /\ UNCHANGED <<args, config, clock, fetched, games, queueResults, queues, fnArgs, fnResult>>

\* a closing line that counts the tasks that were created
ProcessedLineCreated(gs, cs) ==
    "Successfully processed "
      \o ToString(Len(SelectSeq(cs, LAMBDA c : c.op = "CreateTask" /\ c.err = NoError)))
      \o " games"

\* main.go:572  log.Printf("Successfully processed %d games", len(games))
ProcessedLine(gs, cs) == "Successfully processed " \o ToString(Len(gs)) \o " games"

\* a main that fails when the summary could not be sent
AfterSummaryFatal(failed) == IF failed THEN "fatal" ELSE "done"

\* main.go:586-588  a SendScheduleSummary error is logged as a warning; main returns
AfterSummary(failed) == "done"

\* main.go:572-589  the closing log line, the summary notification, then the end of main
SendSummary ==
    /\ pc = "processed"
    /\ LET notifier == NewDiscordSender(config.DiscordWebhookURL, "")
           said     == Append(logged, ProcessedLine(games, calls))
       IN  IF IsEnabled(notifier)
           THEN \E answer \in WebhookAnswers :
                /\ calls' = Append(calls,
                        Call("Post", ScheduleSummary(notifier, GameInfos(games), clock),
                             sendPayloadError(answer)))
                /\ logged' = IF sendPayload(answer) THEN said
                             ELSE Append(said, "Warning: Failed to send schedule summary notification")
                /\ pc' = AfterSummary(~sendPayload(answer))
           ELSE /\ calls' = calls
                /\ logged' = said
                /\ pc' = "done"
    /\ UNCHANGED <<args, config, clock, fetched, games, idx, queueResults, queues, attempted, fnArgs, fnResult>>

Next ==
    \/ ParseFlags
    \/ Connect
    \/ TestGames
    \/ FetchGames
    \/ EnsureQueue
    \/ CreateCloudTask
    \/ SendSummary

Spec == Init /\ [][Next]_vars

----------------------------------------------------------------------------
(* createQueue called again and again against one transport *)

MaxQueueCalls == 2

QueueConfigs ==
    { [NoConfig EXCEPT !.ProjectID = p, !.QueueName = q] :
        p \in {"localproject", "crash-the-crease"}, q \in {"gameschedule", "game-updates"} }

InitQueue ==
    /\ pc = "queue"
    /\ args \in { a \in ArgSpace : /\ ~parseFlags(a, Now0).fatal
                                  /\ ~a.prod /\ ~a.test /\ ~a.all /\ ~a.today
                                  /\ a.date = <<>> /\ a.teams = <<>> /\ a.envWebhook = ""
                                  /\ DefaultPlace(a) }
    /\ config \in { [parseFlags(args, Now0).config EXCEPT !.ProjectID = c.ProjectID,
                                                         !.QueueName = c.QueueName] :
                     c \in QueueConfigs }
    /\ clock = Now0
    /\ fetched = <<>>
    /\ games = <<>>
    /\ idx = 0
    /\ queueResults = <<>>
    /\ queues \in SUBSET { QueuePath(c) : c \in QueueConfigs }
    /\ calls = <<>>
    /\ attempted = <<>>
    /\ logged = <<>>
    /\ fnArgs = <<>>
    /\ fnResult = <<>>

CreateQueueAgain ==
    /\ pc = "queue"
    /\ Len(queueResults) < MaxQueueCalls
    /\ \E err \in CreateQueueAnswers(QueuePath(config), queues) : CreateQueueCall(err)
    /\ UNCHANGED <<pc, args, config, clock, fetched, games, idx, attempted, logged, fnArgs, fnResult>>

NextQueue == CreateQueueAgain

SpecQueue == InitQueue /\ [][NextQueue]_vars

----------------------------------------------------------------------------
(* parseTeamIdentifier called on its own *)

\* the keys of cityCodeToTeamID, letter by letter
CodeChars ==
    { <<"A","N","A">>, <<"A","R","I">>, <<"B","O","S">>, <<"B","U","F">>,
      <<"C","A","R">>, <<"C","B","J">>, <<"C","G","Y">>, <<"C","H","I">>,
      <<"C","O","L">>, <<"D","A","L">>, <<"D","E","T">>, <<"E","D","M">>,
      <<"F","L","A">>, <<"L","A","K">>, <<"M","I","N">>, <<"M","T","L">>,
      <<"N","J","D">>, <<"N","S","H">>, <<"N","Y","I">>, <<"N","Y","R">>,
      <<"O","T","T">>, <<"P","H","I">>, <<"P","I","T">>, <<"S","E","A">>,
      <<"S","J","S">>, <<"S","T","L">>, <<"T","B","L">>, <<"T","O","R">>,
      <<"V","A","N">>, <<"V","G","K">>, <<"W","P","G">>, <<"W","S","H">> }

ToLowerChar(c) ==
    IF \E i \in 1..Len(UpperLetters) : UpperLetters[i] = c
    THEN LowerLetters[CHOOSE i \in 1..Len(UpperLetters) : UpperLetters[i] = c]
    ELSE c

ToLower(cs) == [i \in 1..Len(cs) |-> ToLowerChar(cs[i])]

\* the decimal string of a number that is not negative
RECURSIVE Itoa(_)
Itoa(n) == IF n < 10 THEN <<Digits[n + 1]>> ELSE Itoa(n \div 10) \o <<Digits[(n % 10) + 1]>>

\* ways of writing a code: as in the table, lower case, mixed case, with white space around
CodeVariants(code) ==
    { code,
      ToLower(code),
      <<ToLowerChar(code[1]), code[2], ToLowerChar(code[3])>>,
      <<" ">> \o code \o <<" ">>,
      <<"\t">> \o ToLower(code) \o <<" ", "\n">> }

\* ways of writing a team number
NumberVariants(n) == { Itoa(n), <<" ">> \o Itoa(n) \o <<"\t">> }

\* other tokens: no code, integers written in other ways, texts that are no integer
OtherTokens ==
    { <<>>, <<" ">>, <<"Z","Z","Z">>, <<"z","z","z">>, <<"D","A","L","L">>, <<"D","A">>,
      <<"D"," ","A","L">>, <<"+","2","5">>, <<"-","3">>, <<"0","0","7">>, <<"9","9","9">>,
      <<"0">>, <<"2","5","x">>, <<"1",".","5">>, <<"2"," ","5">>, <<"+">>, <<"-">>,
      <<"0","x","1","9">>, <<"2","5",",">>, <<"1","_","0">> }

\* the calls tried: a code and the number of its team, or one other token
ResolveInputs ==
    UNION { { <<v, n>> : v \in CodeVariants(code),
                         n \in NumberVariants(cityCodeToTeamID[Str(code)]) } :
            code \in CodeChars }
    \cup { <<t>> : t \in OtherTokens }

\* the command line without any flag
NoArgs ==
    [ local |-> FALSE, host |-> "", test |-> FALSE, all |-> FALSE, today |-> FALSE,
      prod |-> FALSE, shootout |-> FALSE, date |-> <<>>, teams |-> <<>>,
      webhook |-> "", envWebhook |-> "",
      project |-> "localproject", location |-> "us-south1", queue |-> "gameschedule" ]

\* a function is about to be called with fnArgs: nothing of a run has happened
InitFunction ==
    /\ args = NoArgs
    /\ config = NoConfig
    /\ clock = Now0
    /\ fetched = <<>>
    /\ games = <<>>
    /\ idx = 0
    /\ queueResults = <<>>
    /\ queues = {}
    /\ calls = <<>>
    /\ attempted = <<>>
    /\ logged = <<>>
    /\ fnResult = <<>>

InitResolve ==
    /\ pc = "resolve"
    /\ fnArgs \in ResolveInputs
    /\ InitFunction

\* config.go:75-90  parseTeamIdentifier on each token of fnArgs
Resolve ==
    /\ pc = "resolve"
    /\ fnResult' = [i \in 1..Len(fnArgs) |-> parseTeamIdentifier(fnArgs[i])]
    /\ pc' = "resolved"
    /\ UNCHANGED <<args, config, clock, fetched, games, idx, queueResults, queues, calls,
                   attempted, logged, fnArgs>>

NextResolve == Resolve

SpecResolve == InitResolve /\ [][NextResolve]_vars

----------------------------------------------------------------------------
(* The two filters called on their own *)

MaxFilterGames == 3     \* longest list handed to a filter
MaxTeams == 2           \* longest team list handed to filterGamesForTeams

\* team numbers of the team list: three that play in GamePool, one that does not
TeamIDPool == {1, 25, 55, 77}

FilterInputs ==
    [ games : SeqsUpTo(GamePool, MaxFilterGames),
      teams : SeqsUpTo(TeamIDPool, MaxTeams),
      now   : {Now0, Now0 + Tick} ]

InitFilter ==
    /\ pc = "filter"
    /\ fnArgs \in FilterInputs
    /\ InitFunction

\* main.go:661-681  filterGamesForTeams(games, teams)
FilterByTeams ==
    /\ pc = "filter"
    /\ fnResult' = [games |-> filterGamesForTeams(fnArgs.games, fnArgs.teams), warnings |-> <<>>]
    /\ pc' = "byTeams"
    /\ UNCHANGED <<args, config, clock, fetched, games, idx, queueResults, queues, calls,
                   attempted, logged, fnArgs>>

\* main.go:684-703  filterUpcomingGames(games) when the clock reads fnArgs.now
FilterUpcoming ==
    /\ pc = "filter"
    /\ fnResult' = [games |-> filterUpcomingGames(fnArgs.games, fnArgs.now),
                    warnings |-> UpcomingWarnings(fnArgs.games)]
    /\ pc' = "upcoming"
    /\ UNCHANGED <<args, config, clock, fetched, games, idx, queueResults, queues, calls,
                   attempted, logged, fnArgs>>

NextFilter ==
    \/ FilterByTeams
    \/ FilterUpcoming

SpecFilter == InitFilter /\ [][NextFilter]_vars

----------------------------------------------------------------------------
(* A DiscordSender called on its own *)

MaxSummaryGames == 3    \* longest list handed to SendScheduleSummary

UserIDValue == "123456789"

\* the GameInfo values of the lists: those of the games of GamePool
InfoPool == { GameInfoOf(g) : g \in GamePool }

\* the answers of the webhook tried here: those of a run, and two more statuses
SenderAnswers == WebhookAnswers \cup {201, 404}

SenderInputs ==
    [ userID  : {"", UserIDValue},
      games   : SeqsUpTo(InfoPool, MaxSummaryGames),
      message : {"Test message"},
      answer  : SenderAnswers ]

InitSender ==
    /\ pc = "notify"
    /\ fnArgs \in SenderInputs
    /\ InitFunction

\* discord.go:209-215  Send(message): the payload and what sendPayload returns for it
Send ==
    /\ pc = "notify"
    /\ fnResult' = [ payload |-> [Content |-> fnArgs.message, Embeds |-> <<>>],
                     err |-> sendPayloadError(fnArgs.answer) ]
    /\ pc' = "sent"
    /\ UNCHANGED <<args, config, clock, fetched, games, idx, queueResults, queues, calls,
                   attempted, logged, fnArgs>>

\* discord.go:219-261  SendScheduleSummary(games) of a sender made with WithUserID(userID)
SendScheduleSummary ==
    /\ pc = "notify"
    /\ LET d == NewDiscordSender(WebhookFlagValue, fnArgs.userID)
       IN  fnResult' = [ payload |-> ScheduleSummary(d, fnArgs.games, clock),
                         err |-> sendPayloadError(fnArgs.answer) ]
    /\ pc' = "summarised"
    /\ UNCHANGED <<args, config, clock, fetched, games, idx, queueResults, queues, calls,
                   attempted, logged, fnArgs>>

NextSender ==
    \/ Send
    \/ SendScheduleSummary

SpecSender == InitSender /\ [][NextSender]_vars

----------------------------------------------------------------------------
(* run.sh: pull the image, then run the container *)

\* how `docker pull` can end: done, or an error text of one of the kinds the script greps for
PullOutcomes == {"ok", "network", "auth", "notfound", "other"}

\* the machine the script runs on and its command line
ScriptInputs ==
    [ forcePull : BOOLEAN,          \* --force-pull was given
      installed : BOOLEAN,          \* `command -v docker` succeeds
      daemon    : BOOLEAN,          \* `docker info` succeeds
      pull      : PullOutcomes,
      cached    : BOOLEAN,          \* `docker image inspect` succeeds
      prod      : BOOLEAN,          \* -prod is among the container arguments
      container : {0, 1} ]          \* exit status of `docker run`

\* run.sh:5  set -e: a simple command that fails ends the script with its status
ErrExit == TRUE

\* run.sh:71-112  where the branch taken after a failed pull leads
AfterFailedPull(force, kind, cached) ==
    IF kind = "auth" THEN "exit"
    ELSE IF kind = "notfound" THEN "exit"
    ELSE IF force THEN "exit"
    ELSE IF kind = "network" \/ ~force
         THEN IF cached THEN "run" ELSE "exit"
         ELSE "exit"

\* run.sh:71-112  what that branch logs
FailedPullLog(force, kind, cached) ==
    (IF kind = "network" THEN <<"Network error while pulling image from registry">>
     ELSE IF kind = "auth" THEN <<"Authentication failed when pulling image">>
     ELSE IF kind = "notfound" THEN <<"Image not found in registry">>
     ELSE <<"Failed to pull image from registry">>)
    \o (IF kind \in {"auth", "notfound"} THEN <<>>
        ELSE IF force THEN <<"Force pull mode enabled - failing due to registry pull failure">>
        ELSE IF cached THEN <<"Using locally cached image">>
        ELSE <<"No local image found">>)

\* run.sh:65-113  PULL_ERROR=$(docker pull ...) is a simple command: under set -e a pull
\* that fails ends the script there, before PULL_EXIT_CODE is looked at
AfterPull(force, kind, cached) ==
    IF kind = "ok" THEN "run"
    ELSE IF ErrExit THEN "exit"
    ELSE AfterFailedPull(force, kind, cached)

InitScript ==
    /\ pc = "script"
    /\ fnArgs \in ScriptInputs
    /\ InitFunction

\* run.sh:45-48  docker must be installed
CheckDocker ==
    /\ pc = "script"
    /\ IF fnArgs.installed
       THEN /\ pc' = "daemon"
            /\ UNCHANGED <<logged, fnResult>>
       ELSE /\ pc' = "exit"
            /\ logged' = Append(logged, "Docker is not installed")
            /\ fnResult' = <<1>>
    /\ UNCHANGED <<args, config, clock, fetched, games, idx, queueResults, queues, calls,
                   attempted, fnArgs>>

\* run.sh:51-54  the docker daemon must be running
CheckDaemon ==
    /\ pc = "daemon"
    /\ IF fnArgs.daemon
       THEN /\ pc' = "pull"
            /\ UNCHANGED <<logged, fnResult>>
       ELSE /\ pc' = "exit"
            /\ logged' = Append(logged, "Docker daemon is not running")
            /\ fnResult' = <<1>>
    /\ UNCHANGED <<args, config, clock, fetched, games, idx, queueResults, queues, calls,
                   attempted, fnArgs>>

\* run.sh:61-113  docker pull and what follows it
PullImage ==
    /\ pc = "pull"
    /\ calls' = Append(calls, Call("docker pull", "image",
                                   IF fnArgs.pull = "ok" THEN NoError ELSE <<fnArgs.pull>>))
    /\ pc' = AfterPull(fnArgs.forcePull, fnArgs.pull, fnArgs.cached)
    /\ logged' = IF fnArgs.pull = "ok" THEN Append(logged, "Successfully pulled image")
                 ELSE IF ErrExit THEN logged
                 ELSE logged \o FailedPullLog(fnArgs.forcePull, fnArgs.pull, fnArgs.cached)
    /\ fnResult' = IF AfterPull(fnArgs.forcePull, fnArgs.pull, fnArgs.cached) = "exit"
                   THEN <<1>> ELSE fnResult
    /\ UNCHANGED <<args, config, clock, fetched, games, idx, queueResults, queues,
                   attempted, fnArgs>>

\* run.sh:115-144  docker run with the arguments handed through; its status ends the script
RunContainer ==
    /\ pc = "run"
    /\ calls' = Append(calls, Call("docker run", [addHost |-> ~fnArgs.prod],
                                   IF fnArgs.container = 0 THEN NoError ELSE <<"exit", "status">>))
    /\ logged' = IF fnArgs.container = 0 THEN Append(logged, "Container execution completed")
                 ELSE logged
    /\ fnResult' = <<fnArgs.container>>
    /\ pc' = "exit"
    /\ UNCHANGED <<args, config, clock, fetched, games, idx, queueResults, queues,
                   attempted, fnArgs>>

NextScript ==
    \/ CheckDocker
    \/ CheckDaemon
    \/ PullImage
    \/ RunContainer

SpecScript == InitScript /\ [][NextScript]_vars

----------------------------------------------------------------------------
(* Properties *)

CallsOf(op) == SelectSeq(calls, LAMBDA c : c.op = op)

Parses(g) == g.StartTime.ok

Parsing(gs) == SelectSeq(gs, Parses)

Finished == pc \in {"processed", "done"}

NotifierConfigured == args.webhook # "" \/ args.envWebhook # ""

\* the instant a timestamp text denotes
InstantOf(s) == s.wall - s.off

\* the words of the i-th block of a summary description
Block(desc, i) == SubSeq(desc, 9 * (i - 1) + 1, 9 * i)

\* C1: once processGames has returned, CreateTask has been called exactly once for each
\* game of the filtered list whose start time parses, in order, whatever failed for the
\* other games (a start time that does not parse, or a CreateTask error)
C1_OneTaskPerParsableGame ==
    Finished =>
        LET tasks == CallsOf("CreateTask")
            good  == Parsing(games)
        IN  /\ Len(tasks) = Len(games) - Cardinality({ i \in 1..Len(games) : ~Parses(games[i]) })
            /\ Len(tasks) = Len(good)
            /\ \A i \in 1..Len(good) :
                /\ tasks[i].arg.Body.game.id = ToString(good[i].ID)
                /\ tasks[i].arg.Body.game.startTimeUTC = good[i].StartTime

C1_Witness ==
    /\ Finished
    /\ Len(games) = 2
    /\ ~Parses(games[1])
    /\ Parses(games[2])
    /\ Len(CallsOf("CreateTask")) = 1

C3_EmptyListNoTransportRequest ==
    Len(games) = 0 =>
        \A i \in 1..Len(calls) : calls[i].op \notin {"CreateQueue", "CreateTask"}

C3_Witness ==
    /\ pc = "done"
    /\ Len(fetched) > 0
    /\ Len(games) = 0
    /\ \A i \in 1..Len(calls) : calls[i].op \notin {"CreateQueue", "CreateTask"}

\* C4: with a non-empty filtered list CreateQueue is called exactly once, before every
\* CreateTask, and no CreateQueue follows a CreateTask
C4_QueueOnceBeforeTasks ==
    /\ Len(CallsOf("CreateQueue")) <= 1
    /\ \A i \in 1..Len(calls) :
        calls[i].op = "CreateTask" =>
            /\ \E j \in 1..(i - 1) : calls[j].op = "CreateQueue"
            /\ \A j \in (i + 1)..Len(calls) : calls[j].op # "CreateQueue"
    /\ (pc \in {"loop", "processed", "done"} /\ Len(games) > 0) =>
            Len(CallsOf("CreateQueue")) = 1

C4_Witness ==
    /\ pc = "done"
    /\ Len(CallsOf("CreateTask")) = 2
    /\ Len(CallsOf("CreateQueue")) = 1

\* the transport's way of saying that the queue already exists
ReportsAlreadyExists(err) ==
    err \in {ErrAlreadyExistsStatus, ErrAlreadyExistsText, ErrAlreadyExistsCode}

\* C5: every createQueue call that the transport answered by creating the queue or by
\* reporting that it already exists returned success; so do a first call that creates the
\* queue and a second call that finds it
C5_CreateQueueIdempotent ==
    /\ Len(queueResults) = Len(CallsOf("CreateQueue"))
    /\ \A i \in 1..Len(queueResults) :
        LET c == CallsOf("CreateQueue")[i]
        IN  (c.err = NoError \/ ReportsAlreadyExists(c.err)) => queueResults[i]

C5_Witness ==
    /\ Len(queueResults) = 2
    /\ calls[1].err = NoError
    /\ calls[2].err = ErrAlreadyExistsCode
    /\ queueResults = <<TRUE, TRUE>>

\* C6: a createQueue that failed for another reason does not end the run: the run is never
\* fatal afterwards, every game of the list is still handed to createCloudTask, CreateTask
\* is called for each game whose start time parses, and the summary is still sent
C6_QueueFailureNotFatal ==
    (queueResults # <<>> /\ ~queueResults[1]) =>
        /\ pc \in {"loop", "processed", "done"}
        /\ \E i \in 1..Len(logged) : logged[i] = "Warning: Failed to create queue"
        /\ Finished =>
            /\ attempted = games
            /\ Len(CallsOf("CreateTask")) = Len(Parsing(games))
        /\ (pc = "done" /\ NotifierConfigured) => Len(CallsOf("Post")) = 1

C6_Witness ==
    /\ pc = "done"
    /\ queueResults = <<FALSE>>
    /\ Len(games) = 2
    /\ \E i \in 1..Len(calls) : calls[i].op = "CreateTask" /\ calls[i].err = NoError
    /\ Len(CallsOf("Post")) = 1

\* C7: the games handed to createCloudTask are the filtered list in its order (a prefix of
\* it while the loop runs, all of it afterwards), and the blocks of the summary name the
\* teams of the games of the filtered list in the same order
C7_OrderPreserved ==
    /\ Len(attempted) <= Len(games)
    /\ attempted = SubSeq(games, 1, Len(attempted))
    /\ Finished => attempted = games
    /\ \A i \in 1..Len(calls) :
        (calls[i].op = "Post" /\ Len(games) > 0) =>
            LET desc == calls[i].arg.Embeds[1].Description
            IN  /\ Len(desc) = 9 * Len(games)
                /\ \A k \in 1..Len(games) :
                    /\ Block(desc, k)[2] = games[k].AwayTeam.Abbrev
                    /\ Block(desc, k)[4] = games[k].HomeTeam.Abbrev

C7_Witness ==
    /\ pc = "done"
    /\ Len(games) = 2
    /\ Parses(games[1]) /\ Parses(games[2])
    /\ InstantOf(games[1].StartTime) > InstantOf(games[2].StartTime)
    /\ attempted = games
    /\ Len(CallsOf("Post")) = 1

C9_ShouldNotifyIsNotTestMode ==
    \A i \in 1..Len(calls) :
        calls[i].op = "CreateTask" => (calls[i].arg.Body.ShouldNotify <=> ~args.test)

C9_Witness ==
    \E i \in 1..Len(calls) :
        /\ calls[i].op = "CreateTask"
        /\ args.test
        /\ ~calls[i].arg.Body.ShouldNotify

C11_TargetURLFromDestinationFlag ==
    \A i \in 1..Len(calls) :
        calls[i].op = "CreateTask" =>
            /\ args.local => calls[i].arg.Url = "http://host.docker.internal:8080"
            /\ ~args.local => (args.host # "" /\ calls[i].arg.Url = args.host)

C11_Witness ==
    /\ pc = "done"
    /\ ~args.local
    /\ ~DefaultPlace(args)
    /\ LET tasks == CallsOf("CreateTask")
       IN  /\ Len(tasks) = 2
           /\ tasks[1].arg.Body.game.id # tasks[2].arg.Body.game.id
           /\ tasks[1].arg.Url = HostURLValue
           /\ tasks[2].arg.Url = HostURLValue

\* C12: a run started with -prod and a valid command line connects to the task service:
\* it never ends in a fatal error without having dialled the service
C12_ProdRunConnects ==
    (args.prod /\ ~parseFlags(args, Now0).fatal) =>
        ~(pc = "fatal" /\ Len(CallsOf("Dial")) = 0)

\* the -teams value was given and one of its tokens resolves to no team
HasUnresolvableToken(a) ==
    /\ a.teams # <<>>
    /\ \E i \in 1..Len(Split(a.teams, ",")) : ~parseTeamIdentifier(Split(a.teams, ",")[i]).ok

\* what a run that was aborted by parseFlags has done: nothing
AbortedBeforeAnyCall ==
    /\ pc = "fatal"
    /\ calls = <<>>
    /\ fetched = <<>>
    /\ attempted = <<>>
    /\ queueResults = <<>>

\* C13 as stated: a -teams value with a token that cannot be resolved aborts the run before
\* any call, for every combination of the other flags, -all included
C13_UnresolvableTokenAlwaysFatal ==
    (HasUnresolvableToken(args) /\ pc # "start") => AbortedBeforeAnyCall

\* C13: without -all, a -teams value with a token that cannot be resolved aborts the run
\* with a fatal error before it connects, fetches or creates any queue or task, for every
\* combination of the other flags (-test included); with -all the value is not read
C13_UnresolvableTokenFatalUnlessAll ==
    /\ (HasUnresolvableToken(args) /\ ~args.all /\ pc # "start") => AbortedBeforeAnyCall
    /\ (HasUnresolvableToken(args) /\ args.all /\ pc \notin {"start", "fatal"}) =>
            config.Teams = <<>>

C13_Witness ==
    /\ HasUnresolvableToken(args)
    /\ ~args.all
    /\ args.test
    /\ args.local /\ args.host = ""
    /\ AbortedBeforeAnyCall
    /\ logged = <<"Invalid team identifier">>

\* C14: for every code of cityCodeToTeamID, the code written in any letter case and with
\* white space around it, and the decimal string of its team number, both resolve, and
\* to the same team number: the one of the table
C14_FormatInvariance ==
    /\ { Str(code) : code \in CodeChars } = DOMAIN cityCodeToTeamID
    /\ (pc = "resolved" /\ Len(fnArgs) = 2) =>
            /\ fnResult[1].ok
            /\ fnResult[2].ok
            /\ fnResult[1].val = fnResult[2].val
            /\ \E code \in CodeChars :
                    /\ fnArgs[1] \in CodeVariants(code)
                    /\ fnResult[1].val = cityCodeToTeamID[Str(code)]

C14_Witness ==
    /\ pc = "resolved"
    /\ fnArgs = << <<"\t","d","a","l"," ","\n">>, <<"2","5">> >>
    /\ fnResult = << [ok |-> TRUE, val |-> 25], [ok |-> TRUE, val |-> 25] >>

\* the token without the white space around it
Stripped(cs) ==
    LET inner == { i \in 1..Len(cs) : cs[i] \notin {" ", "\t", "\n", "\r"} }
    IN  IF inner = {} THEN <<>>
        ELSE SubSeq(cs, CHOOSE i \in inner : \A j \in inner : i <= j,
                        CHOOSE i \in inner : \A j \in inner : i >= j)

\* the token names a code of the table, in any letter case
NamesCode(cs) == \E code \in CodeChars : ToLower(Stripped(cs)) = ToLower(code)

\* the token is an integer: an optional sign, then digits only, at least one
NamesInteger(cs) ==
    LET t    == Stripped(cs)
        from == IF t # <<>> /\ t[1] \in {"+", "-"} THEN 2 ELSE 1
    IN  /\ Len(t) >= from
        /\ \A i \in from..Len(t) : t[i] \in {"0","1","2","3","4","5","6","7","8","9"}

\* C15: parseTeamIdentifier fails exactly when the trimmed, upper-cased token is neither a
\* code of the table nor an integer; "ZZZ" and the empty token fail; a code resolves to the
\* number of the table, an integer to its value
C15_FailsExactlyOnUnknownToken ==
    pc = "resolved" =>
        \A i \in 1..Len(fnArgs) :
            /\ fnResult[i].ok <=> (NamesCode(fnArgs[i]) \/ NamesInteger(fnArgs[i]))
            /\ NamesCode(fnArgs[i]) =>
                    \E code \in CodeChars : /\ ToLower(Stripped(fnArgs[i])) = ToLower(code)
                                            /\ fnResult[i].val = cityCodeToTeamID[Str(code)]
            /\ fnArgs[i] \in { <<>>, <<" ">>, <<"Z","Z","Z">>, <<"z","z","z">>, <<"2","5","x">>,
                               <<"1",".","5">>, <<"2"," ","5">>, <<"+">>, <<"0","x","1","9">> }
                    => ~fnResult[i].ok
            /\ fnArgs[i] = <<"+","2","5">> => fnResult[i] = [ok |-> TRUE, val |-> 25]
            /\ fnArgs[i] = <<"-","3">> => fnResult[i] = [ok |-> TRUE, val |-> 0 - 3]
            /\ fnArgs[i] = <<"0","0","7">> => fnResult[i] = [ok |-> TRUE, val |-> 7]

C15_Witness ==
    /\ pc = "resolved"
    /\ fnArgs = << <<"Z","Z","Z">> >>
    /\ ~fnResult[1].ok

\* C16: filterGamesForTeams returns its input when the team list is empty; otherwise it
\* returns, in the order of the input, exactly the games whose home or away team number
\* occurs in the team list, so the order and the repetitions of the list do not matter
C16_TeamFilterIsSubsequence ==
    pc = "byTeams" =>
        IF fnArgs.teams = <<>>
        THEN fnResult.games = fnArgs.games
        ELSE fnResult.games =
                SelectSeq(fnArgs.games,
                          LAMBDA g : \E i \in 1..Len(fnArgs.teams) :
                                        \/ fnArgs.teams[i] = g.HomeTeam.ID
                                        \/ fnArgs.teams[i] = g.AwayTeam.ID)

C16_Witness ==
    /\ pc = "byTeams"
    /\ fnArgs.teams = <<55, 1>>
    /\ Len(fnArgs.games) = 3
    /\ fnArgs.games[2].ID = 2025020002
    /\ Len(fnResult.games) = 2
    /\ fnResult.games[1].ID = 2025020001
    /\ fnResult.games[2].ID = 2025020003

\* C17: filterUpcomingGames returns, in the order of the input, exactly the input games
\* whose start time parses and lies strictly after the current instant: a game that starts
\* at the current instant or earlier is dropped, a game whose start time does not parse is
\* dropped with one warning and no failure
C17_UpcomingStrictlyAfterNow ==
    pc = "upcoming" =>
        /\ \A i \in 1..Len(fnResult.games) :
                /\ fnResult.games[i].StartTime.ok
                /\ InstantOf(fnResult.games[i].StartTime) > fnArgs.now
        /\ fnResult.games =
                SelectSeq(fnArgs.games,
                          LAMBDA g : g.StartTime.ok /\ g.StartTime.wall - g.StartTime.off > fnArgs.now)
        /\ Len(fnResult.warnings) =
                Cardinality({ i \in 1..Len(fnArgs.games) : ~fnArgs.games[i].StartTime.ok })
        /\ \A i \in 1..Len(fnResult.warnings) :
                fnResult.warnings[i] = "Warning: Could not parse start time"

C17_Witness ==
    /\ pc = "upcoming"
    /\ Len(fnArgs.games) = 3
    /\ InstantOf(fnArgs.games[1].StartTime) = fnArgs.now
    /\ ~fnArgs.games[2].StartTime.ok
    /\ InstantOf(fnArgs.games[3].StartTime) > fnArgs.now
    /\ fnResult.games = <<fnArgs.games[3]>>
    /\ Len(fnResult.warnings) = 1

\* main has its list of games
HasGames == pc \in {"loaded", "loop", "processed", "done"}

\* how many lines of the log warn of a start time that did not parse
ParseWarnings ==
    Cardinality({ i \in 1..Len(logged) : logged[i] = "Warning: Could not parse start time" })

\* C18: the schedule is fetched for the day of the run (day 100) when -today is given,
\* whatever -date says, and when neither is given; for the -date value otherwise.  The list
\* of the run is the fetched list filtered by team and then, under -today only, by start
\* time: only games that passed the team filter can cause a start-time warning
C18_TodayOverridesDate ==
    /\ \A i \in 1..Len(calls) :
            calls[i].op = "Fetch" =>
                calls[i].arg = IF args.today \/ args.date = <<>> THEN <<100>> ELSE args.date
    /\ (HasGames /\ ~args.test) =>
            LET inTeams(g) == \/ config.Teams = <<>>
                              \/ \E i \in 1..Len(config.Teams) :
                                    config.Teams[i] \in {g.HomeTeam.ID, g.AwayTeam.ID}
                later(g)   == g.StartTime.ok /\ InstantOf(g.StartTime) > clock
                byTeam     == SelectSeq(fetched, inTeams)
            IN  IF args.today
                THEN /\ games = SelectSeq(byTeam, later)
                     /\ ParseWarnings = Len(byTeam) - Len(Parsing(byTeam))
                ELSE /\ games = byTeam
                     /\ ParseWarnings = 0

C18_Witness ==
    /\ pc = "done"
    /\ args.today
    /\ args.date = <<99>>
    /\ args.teams = <<"5","5">>
    /\ Len(CallsOf("Fetch")) = 1
    /\ CallsOf("Fetch")[1].arg = <<100>>
    /\ Len(fetched) = 2
    /\ ~fetched[1].StartTime.ok
    /\ fetched[2].AwayTeam.ID = 55
    /\ games = <<>>
    /\ ParseWarnings = 0

ClosingLine(k) == "Successfully processed " \o ToString(k) \o " games"

\* C20: processGames never fails: a run that has called createQueue or createCloudTask is
\* never aborted, even when every task creation failed, and a run that ends logs once
\* that it processed as many games as the filtered list holds
C20_BatchAlwaysSucceeds ==
    /\ pc = "fatal" =>
            /\ attempted = <<>>
            /\ queueResults = <<>>
            /\ \A i \in 1..Len(calls) : calls[i].op \notin {"CreateQueue", "CreateTask"}
    /\ pc = "done" =>
            /\ Cardinality({ i \in 1..Len(logged) :
                                \E k \in 0..(MaxGames + 1) : logged[i] = ClosingLine(k) }) = 1
            /\ \E i \in 1..Len(logged) : logged[i] = ClosingLine(Len(games))

C20_Witness ==
    /\ pc = "done"
    /\ Len(games) = 2
    /\ Len(attempted) = 2
    /\ queueResults = <<FALSE>>
    /\ Len(CallsOf("CreateTask")) = 2
    /\ \A i \in 1..Len(calls) : calls[i].op = "CreateTask" => calls[i].err # NoError
    /\ \E i \in 1..Len(logged) : logged[i] = "Successfully processed 2 games"

\* C21: when the schedule request fails (no answer, a status other than 200, a body that
\* does not decode) the run ends at once with a fatal error: the fetch is its last call,
\* and it makes no CreateQueue call, no CreateTask call and sends no summary
C21_FetchFailureFatal ==
    (\E i \in 1..Len(calls) : calls[i].op = "Fetch" /\ calls[i].err # NoError) =>
        /\ pc = "fatal"
        /\ calls[Len(calls)].op = "Fetch"
        /\ \A i \in 1..Len(calls) : calls[i].op \notin {"CreateQueue", "CreateTask", "Post"}
        /\ attempted = <<>>
        /\ queueResults = <<>>
        /\ logged[Len(logged)] = "Failed to fetch games"

C21_Witness ==
    /\ pc = "fatal"
    /\ NotifierConfigured
    /\ Len(CallsOf("Fetch")) = 1
    /\ CallsOf("Fetch")[1].err = <<"NHL", "API", "returned", "status">>
    /\ Len(calls) = 2

\* C22: the summary is sent when all task creation is over and is the last call of the
\* run; when it fails (no answer, or a status other than 200 and 204) the run still
\* completes, with a warning as the last line of its log and nothing else changed
C22_SummaryFailureOnlyWarning ==
    \A i \in 1..Len(calls) :
        calls[i].op = "Post" =>
            /\ i = Len(calls)
            /\ pc = "done"
            /\ attempted = games
            /\ (calls[i].err # NoError) <=>
                    (logged[Len(logged)] = "Warning: Failed to send schedule summary notification")

C22_Witness ==
    /\ pc = "done"
    /\ Len(CallsOf("Post")) = 1
    /\ CallsOf("Post")[1].err = <<"Discord", "webhook", "returned", "status", "500">>
    /\ \E i \in 1..Len(calls) : calls[i].op = "CreateTask" /\ calls[i].err = NoError
    /\ logged[Len(logged)] = "Warning: Failed to send schedule summary notification"

\* the embed of the summary that was built
SummaryEmbed == fnResult.payload.Embeds[1]

\* C23: the summary has exactly one embed; for an empty list its title is "NHL Game
\* Schedule" without a count, its description the fixed no-games text and its colour
\* 9807270; for any other list the colour is 3066993 and title and description differ
\* from those of the empty list
C23_NoGamesSummary ==
    pc = "summarised" =>
        /\ Len(fnResult.payload.Embeds) = 1
        /\ IF Len(fnArgs.games) = 0
           THEN /\ SummaryEmbed.Title = "NHL Game Schedule"
                /\ SummaryEmbed.Description = <<"No games were identified to schedule.">>
                /\ SummaryEmbed.Color = 9807270
           ELSE /\ SummaryEmbed.Title # "NHL Game Schedule"
                /\ SummaryEmbed.Description[1] # "No games were identified to schedule."
                /\ SummaryEmbed.Color = 3066993

C23_Witness ==
    /\ pc = "summarised"
    /\ fnArgs.games = <<>>
    /\ fnArgs.userID = UserIDValue
    /\ SummaryEmbed.Color = 9807270
    /\ SummaryEmbed.Description = <<"No games were identified to schedule.">>

\* C24: for a list of N >= 1 games the title is "NHL Game Schedule (1 game scheduled)"
\* when N = 1 and "NHL Game Schedule (N games scheduled)" when N >= 2
C24_TitlePlural ==
    (pc = "summarised" /\ Len(fnArgs.games) >= 1) =>
        LET n == Len(fnArgs.games)
        IN  /\ n = 1 => SummaryEmbed.Title = "NHL Game Schedule (1 game scheduled)"
            /\ n = 2 => SummaryEmbed.Title = "NHL Game Schedule (2 games scheduled)"
            /\ n = 3 => SummaryEmbed.Title = "NHL Game Schedule (3 games scheduled)"
            /\ n >= 2 => SummaryEmbed.Title =
                            "NHL Game Schedule (" \o ToString(n) \o " games scheduled)"

C24_Witness ==
    /\ pc = "summarised"
    /\ Len(fnArgs.games) = 1
    /\ SummaryEmbed.Title = "NHL Game Schedule (1 game scheduled)"

\* C25: without a user id the description of a non-empty list is, in the order of the
\* list, one block "**AWAY @ HOME**\n<date> at <start>\n\n" per game and nothing else
C25_OneBlockPerGame ==
    (pc = "summarised" /\ Len(fnArgs.games) >= 1 /\ fnArgs.userID = "") =>
        /\ Len(SummaryEmbed.Description) = 9 * Len(fnArgs.games)
        /\ \A i \in 1..Len(fnArgs.games) :
                Block(SummaryEmbed.Description, i) =
                    <<"**", fnArgs.games[i].AwayTeam, " @ ", fnArgs.games[i].HomeTeam, "**\n",
                      fnArgs.games[i].GameDate, " at ", fnArgs.games[i].StartTime, "\n\n">>

C25_Witness ==
    /\ pc = "summarised"
    /\ fnArgs.userID = ""
    /\ Len(fnArgs.games) = 3
    /\ fnArgs.games[1].AwayTeam = "SEA"
    /\ fnArgs.games[2].AwayTeam = "DAL"
    /\ fnArgs.games[3].AwayTeam = "CHI"
    /\ Block(SummaryEmbed.Description, 1)[2] = "SEA"
    /\ Block(SummaryEmbed.Description, 3)[4] = "DAL"

\* the positions of a description that hold a piece of text: all but date and start time
TextPositions(desc) == { j \in 1..Len(desc) : j % 9 \notin {6, 8} }

\* C26: the mention "<@userID>" is in the summary exactly when the list is not empty and
\* a user id is configured; it is then the last piece of the description, after the last
\* block, and occurs nowhere else; the content of the message is empty in every case
C26_MentionOnceAtEnd ==
    pc = "summarised" =>
        LET desc == SummaryEmbed.Description
            n    == Len(fnArgs.games)
            at   == { j \in TextPositions(desc) : desc[j] = "<@" \o UserIDValue \o ">" }
        IN  /\ fnResult.payload.Content = ""
            /\ IF n >= 1 /\ fnArgs.userID # ""
               THEN /\ Len(desc) = 9 * n + 1
                    /\ at = {9 * n + 1}
               ELSE /\ at = {}
                    /\ Len(desc) = IF n = 0 THEN 1 ELSE 9 * n

C26_Witness ==
    /\ pc = "summarised"
    /\ fnArgs.userID = UserIDValue
    /\ Len(fnArgs.games) = 2
    /\ Len(SummaryEmbed.Description) = 19
    /\ SummaryEmbed.Description[19] = "<@123456789>"

DockerReady == fnArgs.installed /\ fnArgs.daemon

\* C28: when the script has ended: after a pull that failed with a network error, without
\* --force-pull and with the image in the local cache, the container was run; after a pull
\* that failed with an authentication or not-found error, or that failed in any way under
\* --force-pull, the script ended with a status other than 0 and the container was not run
C28_FallbackToCachedImage ==
    (pc = "exit" /\ DockerReady) =>
        /\ (fnArgs.pull = "network" /\ ~fnArgs.forcePull /\ fnArgs.cached) =>
                Len(CallsOf("docker run")) = 1
        /\ (fnArgs.pull \in {"auth", "notfound"} \/ (fnArgs.pull # "ok" /\ fnArgs.forcePull)) =>
                /\ fnResult # <<0>>
                /\ Len(CallsOf("docker run")) = 0

\* the run has ended: log.Fatalf, or the end of main
Terminated == pc \in {"fatal", "done"}

\* how far main is from its end
PhaseRank ==
    CASE pc = "start" -> 6
      [] pc = "parsed" -> 5
      [] pc = "connected" -> 4
      [] pc = "loaded" -> 3
      [] pc = "loop" -> 2
      [] pc = "processed" -> 1
      [] OTHER -> 0

\* the games the loop of processGames has still to visit
GamesLeft == IF pc = "loop" THEN Len(games) + 1 - idx ELSE 0

\* before its end the run can take a step: parseFlags gives a result for every command
\* line, and after it the step the run stands at is enabled
CanStep ==
    IF pc = "start" THEN parseFlags(args, clock).fatal \in BOOLEAN
    ELSE ENABLED (Connect \/ TestGames \/ FetchGames \/ EnsureQueue \/ CreateCloudTask
                    \/ SendSummary)

\* a step brings the run closer to its end
Progress ==
    \/ PhaseRank' < PhaseRank
    \/ /\ PhaseRank' = PhaseRank
       /\ GamesLeft' < GamesLeft
       /\ GamesLeft' >= 0

\* no external call is made more often than the run needs it
CallsBounded ==
    /\ Len(CallsOf("Dial")) <= 1
    /\ Len(CallsOf("Fetch")) <= 1
    /\ Len(CallsOf("CreateQueue")) <= 1
    /\ Len(attempted) <= Len(games)
    /\ Len(CallsOf("CreateTask")) <= Len(attempted)
    /\ \A i \in 1..Len(attempted) : attempted[i] = games[i]
    /\ Len(CallsOf("Post")) <= 1

\* C29: every run ends, in a fatal exit or at the end of main, once each external call has
\* returned: before the end a step can always be taken and every step brings the run closer
\* to its end, with no way back; it makes at most one CreateQueue call, at most one createCloudTask attempt
\* for each game of the filtered list and at most one summary post, and repeats no call
C29_RunTerminates ==
    /\ [](~Terminated => CanStep)
    /\ [][Progress]_vars
    /\ []CallsBounded

C29_Witness ==
    /\ pc = "done"
    /\ Len(games) = MaxGames
    /\ Len(attempted) = MaxGames
    /\ Len(CallsOf("CreateQueue")) = 1
    /\ \A i \in 1..Len(calls) : calls[i].op \in {"CreateQueue", "CreateTask", "Post"} =>
                                    calls[i].err # NoError
    /\ Len(CallsOf("CreateTask")) = MaxGames
    /\ Len(CallsOf("Post")) = 1


\* the run is in upcoming-only mode: -today without -test
UpcomingOnly == args.today /\ ~args.test

\* how many lines of the log report a task that could not be created
TaskFailures ==
    Cardinality({ i \in 1..Len(logged) : logged[i] = "Failed to create task" })

\* how many CreateTask calls came back with an error
FailedCreateTaskCalls ==
    Cardinality({ i \in 1..Len(calls) : calls[i].op = "CreateTask" /\ calls[i].err # NoError })

\* C30: in upcoming-only mode every game handed to createCloudTask has a start time that
\* parses and that is strictly later than the instant the upcoming filter read, so that
\* createCloudTask calls CreateTask for each of them and fails only when that call fails;
\* a game whose start time does not parse reaches createCloudTask only in a run without
\* -today
C30_UpcomingModeAlwaysParses ==
    /\ UpcomingOnly =>
        /\ \A i \in 1..Len(attempted) :
                /\ attempted[i].StartTime.ok
                /\ InstantOf(attempted[i].StartTime) > clock
        /\ Len(CallsOf("CreateTask")) = Len(attempted)
        /\ TaskFailures = FailedCreateTaskCalls
    /\ (\E i \in 1..Len(attempted) : ~attempted[i].StartTime.ok) => ~args.today

\* an upcoming-only run that asked for a task whose schedule time had already passed when
\* the filter read the clock
C30_Witness ==
    /\ UpcomingOnly
    /\ pc = "done"
    /\ Len(attempted) > 0
    /\ \E i \in 1..Len(calls) :
            /\ calls[i].op = "CreateTask"
            /\ calls[i].err = NoError
            /\ calls[i].arg.ScheduleTime < clock

====
